---- MODULE Spec2Model ----
(***************************************************************************)
(* A model of win-spellcheck-rs (src/src/lib.rs): the process-wide COM     *)
(* initialization guard try_init_com, Spellchecker::new and                *)
(* Spellchecker::check.  The Windows spellchecking service is the          *)
(* environment: every native call answers nondeterministically.            *)
(*                                                                         *)
(* Spec      : threads calling try_init_com / Spellchecker::new.           *)
(* SpecCheck : constructed Spellcheckers running check on one text.        *)
(***************************************************************************)
EXTENDS Integers, Sequences, FiniteSets, TLC

\* ------------------------------------------------------------------ bounds
NumThreads == 2
MaxCalls == 2
MaxLen == 2
MaxErrors == 2
MaxSuggestions == 2

Threads == 1..NumThreads
\* the checkers of the determinism test: spellchecker and spellchecker2
Checkers == {1, 2}
Locales == {"en-US", "xx-XX"}

VARIABLES
    \* ---- process state shared by all threads
    COM_INIT,      \* the bool inside static COM_INIT: Mutex<bool>
    lockHolder,    \* thread holding the COM_INIT mutex, 0 when free
    poisoned,      \* the mutex is poisoned (a holder panicked)
    coInitCalls,   \* number of CoInitializeEx calls made in the process
    coInitState,   \* "none" | "ok" | "failed": outcome of a completed CoInitializeEx
    \* ---- per thread
    tpc,           \* position of the thread inside try_init_com / new
    op,            \* operation in progress: "try_init_com" | "new"
    locale,        \* locale argument of the call in progress
    sawInit,       \* what the call in progress read from *com_init under the
                   \* lock: "unread" | "unset" | "set"
    trace,         \* answers the service gave to the call in progress
    result,        \* "pending" | "None" | "Some" | "unit": what the call returned
    calls,         \* number of calls the thread has started
    afterFail,     \* the call in progress started after CoInitializeEx had failed
    \* ---- check
    text,          \* the text handed to check: a sequence of scalar values
    answers,       \* what the service answers to each native call of a check
    chk,           \* per check call: its position and its local variables
    errIdx,        \* position of each IEnumSpellingError enumerator
    nullFrees      \* CoTaskMemFree calls made on a null pointer

newVars == <<COM_INIT, lockHolder, poisoned, coInitCalls, coInitState, tpc, op,
             locale, sawInit, trace, result, calls, afterFail>>
checkVars == <<text, answers, chk, errIdx, nullFrees>>
vars == <<newVars, checkVars>>

\* ================================================================ lib.rs 11-24
NoTrace == [factory |-> "unasked", supported |-> "unasked", create |-> "unasked"]

\* line 15 with the test dropped: every caller initializes
NeedsInit_Always(flag) == TRUE
\* line 15: if !*com_init
NeedsInit(flag) == ~flag

\* a thread enters try_init_com, directly or as the first statement of new (line 46)
StartCall(t) ==
    /\ tpc[t] = "idle"
    /\ calls[t] < MaxCalls
    /\ \E o \in {"try_init_com", "new"}, l \in Locales :
          /\ op' = [op EXCEPT ![t] = o]
          /\ locale' = [locale EXCEPT ![t] = l]
    /\ tpc' = [tpc EXCEPT ![t] = "lock"]
    /\ calls' = [calls EXCEPT ![t] = @ + 1]
    /\ trace' = [trace EXCEPT ![t] = NoTrace]
    /\ result' = [result EXCEPT ![t] = "pending"]
    /\ sawInit' = [sawInit EXCEPT ![t] = "unread"]
    /\ afterFail' = [afterFail EXCEPT ![t] = (coInitState = "failed")]
    /\ UNCHANGED <<COM_INIT, lockHolder, poisoned, coInitCalls, coInitState>>
    /\ UNCHANGED checkVars

\* line 14: COM_INIT.lock().unwrap(): blocks while held, panics when poisoned
Lock(t) ==
    /\ tpc[t] = "lock"
    /\ lockHolder = 0
    /\ IF poisoned
         THEN /\ tpc' = [tpc EXCEPT ![t] = "panicked"]
              /\ UNCHANGED <<lockHolder, sawInit>>
         ELSE /\ lockHolder' = t
              /\ sawInit' = [sawInit EXCEPT ![t] = IF COM_INIT THEN "set" ELSE "unset"]
              /\ tpc' = [tpc EXCEPT ![t] = "locked"]
    /\ UNCHANGED <<COM_INIT, poisoned, coInitCalls, coInitState, op, locale,
                   trace, result, calls, afterFail>>
    /\ UNCHANGED checkVars

\* what a call does once try_init_com has returned
AfterGuard(t) == IF op[t] = "new" THEN "factory" ELSE "idle"

\* lines 15-17 and 23-24: under the lock, test the flag; when it is unset, set it
\* and drop the guard before the platform call; otherwise the guard is dropped at
\* the end of the function
CheckAndSet(t) ==
    /\ tpc[t] = "locked"
    /\ lockHolder = t
    /\ IF NeedsInit(COM_INIT)
         THEN /\ COM_INIT' = TRUE
              /\ tpc' = [tpc EXCEPT ![t] = "coinit"]
              /\ UNCHANGED result
         ELSE /\ tpc' = [tpc EXCEPT ![t] = AfterGuard(t)]
              /\ result' = [result EXCEPT ![t] =
                               IF op[t] = "new" THEN @ ELSE "unit"]
              /\ UNCHANGED COM_INIT
    /\ lockHolder' = 0
    /\ UNCHANGED <<poisoned, coInitCalls, coInitState, op, locale, sawInit,
                   trace, calls, afterFail>>
    /\ UNCHANGED checkVars

\* lines 18-22: CoInitializeEx(None, COINIT_MULTITHREADED).ok().expect(..):
\* the platform call succeeds or fails; a failure panics the calling thread
CoInitializeEx(t) ==
    /\ tpc[t] = "coinit"
    /\ coInitCalls' = coInitCalls + 1
    /\ \E ok \in BOOLEAN :
          IF ok
            THEN /\ coInitState' = IF coInitState = "failed" THEN "failed" ELSE "ok"
                 /\ tpc' = [tpc EXCEPT ![t] = AfterGuard(t)]
                 /\ result' = [result EXCEPT ![t] =
                                  IF op[t] = "new" THEN @ ELSE "unit"]
                 /\ UNCHANGED poisoned
            ELSE /\ coInitState' = "failed"
                 /\ tpc' = [tpc EXCEPT ![t] = "panicked"]
                 /\ poisoned' = (poisoned \/ lockHolder = t)
                 /\ UNCHANGED result
    /\ UNCHANGED <<COM_INIT, lockHolder, op, locale, sawInit, trace, calls,
                   afterFail>>
    /\ UNCHANGED checkVars

\* ================================================================ lib.rs 45-56
\* lines 50-53 with the as_bool test dropped
LocaleAccepted_AnyAnswer(ans) == ans # "err"
\* lines 50-53: IsSupported(..).ok()? and then local_supported.as_bool()
LocaleAccepted(ans) == ans = "true"

ReturnNew(t, r) ==
    /\ result' = [result EXCEPT ![t] = r]
    /\ tpc' = [tpc EXCEPT ![t] = "idle"]

\* lines 47-48: CoCreateInstance(&SpellCheckerFactory, ..).ok()?
\* (line 10: COM may also have been initialized by somebody else, so the
\* answer is the platform's to give)
CoCreateInstance(t) ==
    /\ tpc[t] = "factory"
    /\ \E ok \in BOOLEAN :
          /\ trace' = [trace EXCEPT ![t].factory = IF ok THEN "ok" ELSE "err"]
          /\ IF ok
               THEN /\ tpc' = [tpc EXCEPT ![t] = "supported"]
                    /\ UNCHANGED result
               ELSE ReturnNew(t, "None")
    /\ UNCHANGED <<COM_INIT, lockHolder, poisoned, coInitCalls, coInitState, op,
                   locale, sawInit, calls, afterFail>>
    /\ UNCHANGED checkVars

\* lines 49-53: factory.IsSupported(&locale).ok()?; return None unless true
IsSupported(t) ==
    /\ tpc[t] = "supported"
    /\ \E ans \in {"err", "false", "true"} :
          /\ trace' = [trace EXCEPT ![t].supported = ans]
          /\ IF LocaleAccepted(ans)
               THEN /\ tpc' = [tpc EXCEPT ![t] = "create"]
                    /\ UNCHANGED result
               ELSE ReturnNew(t, "None")
    /\ UNCHANGED <<COM_INIT, lockHolder, poisoned, coInitCalls, coInitState, op,
                   locale, sawInit, calls, afterFail>>
    /\ UNCHANGED checkVars

\* lines 54-55: factory.CreateSpellChecker(&locale).ok()?; Some(Self(checker))
CreateSpellChecker(t) ==
    /\ tpc[t] = "create"
    /\ \E ok \in BOOLEAN :
          /\ trace' = [trace EXCEPT ![t].create = IF ok THEN "ok" ELSE "err"]
          /\ ReturnNew(t, IF ok THEN "Some" ELSE "None")
    /\ UNCHANGED <<COM_INIT, lockHolder, poisoned, coInitCalls, coInitState, op,
                   locale, sawInit, calls, afterFail>>
    /\ UNCHANGED checkVars

InitNew ==
    /\ COM_INIT = FALSE
    /\ lockHolder = 0
    /\ poisoned = FALSE
    /\ coInitCalls = 0
    /\ coInitState = "none"
    /\ tpc = [t \in Threads |-> "idle"]
    /\ op = [t \in Threads |-> "try_init_com"]
    /\ locale = [t \in Threads |-> "en-US"]
    /\ sawInit = [t \in Threads |-> "unread"]
    /\ trace = [t \in Threads |-> NoTrace]
    /\ result = [t \in Threads |-> "pending"]
    /\ calls = [t \in Threads |-> 0]
    /\ afterFail = [t \in Threads |-> FALSE]

\* the locals of one check call (lines 62-65, 68-70, 74, 77)
NewCheck ==
    [pc |-> "idle",        \* position inside check
     err |-> 0,            \* let err: which error of the enumeration it is
     start |-> 0,          \* let start
     length |-> 0,         \* let length
     inner |-> <<>>,       \* the results vector of the get-suggestions arm
     sugIdx |-> 0,         \* position of the IEnumString enumerator
     results |-> <<>>,     \* the results vector
     ret |-> "pending",    \* "pending" | "None" | "Some" | "panic"
     bufs |-> <<>>,        \* native buffers handed out to this call
     ptr |-> 0,            \* suggestion[0] / replacement: index in bufs, 0 = null
     submitted |-> <<>>,   \* what this call handed to Suggest
     failed |-> FALSE]     \* a native call or a conversion of this call failed

InitCheckIdle ==
    /\ text = <<>>
    /\ answers = <<>>
    /\ chk = [c \in Checkers |-> NewCheck]
    /\ errIdx = [c \in Checkers |-> 0]
    /\ nullFrees = 0

Init == InitNew /\ InitCheckIdle

Next ==
    \E t \in Threads :
        \/ StartCall(t)
        \/ Lock(t)
        \/ CheckAndSet(t)
        \/ CoInitializeEx(t)
        \/ CoCreateInstance(t)
        \/ IsSupported(t)
        \/ CreateSpellChecker(t)

Spec == Init /\ [][Next]_vars


\* ================================================================ strings
\* A text is a sequence of Unicode scalar values; a &str is its UTF-8 bytes,
\* an HSTRING / PWSTR its UTF-16 units.
Alphabet == {97, 233, 128512}

RECURSIVE SeqsUpTo(_, _)
SeqsUpTo(S, n) ==
    IF n = 0 THEN {<<>>}
    ELSE LET shorter == SeqsUpTo(S, n - 1)
         IN  shorter \cup {Append(s, x) : s \in shorter, x \in S}

Texts == SeqsUpTo(Alphabet, MaxLen)

\* str's UTF-8 encoding of one scalar value
Utf8Char(cp) ==
    IF cp < 128 THEN <<cp>>
    ELSE IF cp < 2048 THEN <<192 + (cp \div 64), 128 + (cp % 64)>>
    ELSE IF cp < 65536
      THEN <<224 + (cp \div 4096), 128 + ((cp \div 64) % 64), 128 + (cp % 64)>>
      ELSE <<240 + (cp \div 262144), 128 + ((cp \div 4096) % 64),
             128 + ((cp \div 64) % 64), 128 + (cp % 64)>>

RECURSIVE Utf8(_)
Utf8(s) == IF s = <<>> THEN <<>> ELSE Utf8Char(Head(s)) \o Utf8(Tail(s))

\* str::is_char_boundary: the ends, or a byte that is no continuation byte
IsCharBoundary(bytes, i) ==
    \/ i = 0
    \/ i = Len(bytes)
    \/ i < Len(bytes) /\ bytes[i + 1] \notin 128..191

\* line 75: &text[start..(start + length)] indexes the bytes of the str and
\* panics unless both ends are in range and on character boundaries
SliceOk(bytes, a, b) ==
    /\ a <= b
    /\ b <= Len(bytes)
    /\ IsCharBoundary(bytes, a)
    /\ IsCharBoundary(bytes, b)

ByteSlice(bytes, a, b) == SubSeq(bytes, a + 1, b)

\* the scalar values of well-formed UTF-8
RECURSIVE DecodeUtf8(_)
DecodeUtf8(bytes) ==
    IF bytes = <<>> THEN <<>>
    ELSE LET b == bytes[1]
             n == IF b < 128 THEN 1 ELSE IF b < 224 THEN 2 ELSE IF b < 240 THEN 3 ELSE 4
             cp == IF n = 1 THEN b
                   ELSE IF n = 2 THEN (b - 192) * 64 + (bytes[2] - 128)
                   ELSE IF n = 3
                     THEN (b - 224) * 4096 + (bytes[2] - 128) * 64 + (bytes[3] - 128)
                     ELSE (b - 240) * 262144 + (bytes[2] - 128) * 4096
                          + (bytes[3] - 128) * 64 + (bytes[4] - 128)
         IN  <<cp>> \o DecodeUtf8(SubSeq(bytes, n + 1, Len(bytes)))

\* HSTRING::from(&str): the UTF-16 encoding
RECURSIVE ToUtf16(_)
ToUtf16(s) ==
    IF s = <<>> THEN <<>>
    ELSE LET cp == Head(s)
         IN  (IF cp < 65536 THEN <<cp>>
              ELSE <<55296 + ((cp - 65536) \div 1024), 56320 + ((cp - 65536) % 1024)>>)
             \o ToUtf16(Tail(s))

IsHigh(u) == u \in 55296..56319
IsLow(u) == u \in 56320..57343

\* PWSTR::to_string (String::from_utf16): fails on an unpaired surrogate
RECURSIVE ValidUtf16(_)
ValidUtf16(units) ==
    IF units = <<>> THEN TRUE
    ELSE IF IsHigh(units[1])
      THEN Len(units) >= 2 /\ IsLow(units[2]) /\ ValidUtf16(SubSeq(units, 3, Len(units)))
    ELSE IF IsLow(units[1]) THEN FALSE
    ELSE ValidUtf16(Tail(units))

RECURSIVE FromUtf16(_)
FromUtf16(units) ==
    IF units = <<>> THEN <<>>
    ELSE IF IsHigh(units[1])
      THEN <<65536 + (units[1] - 55296) * 1024 + (units[2] - 56320)>>
           \o FromUtf16(SubSeq(units, 3, Len(units)))
      ELSE <<units[1]>> \o FromUtf16(Tail(units))


\* ================================================================ the service
\* An answer of a native call: ok is the HRESULT test (.ok() is Ok, or == S_OK),
\* val the value handed back.
Ans(ok, val) == [ok |-> ok, val |-> val]
Fail == Ans(FALSE, 0)

\* The service answers the same question the same way to every check of the
\* text: the first check to ask fixes the answer.
Answered(key, a) ==
    IF key \in DOMAIN answers
      THEN a = answers[key] /\ UNCHANGED answers
      ELSE answers' = (key :> a) @@ answers

\* The service reports the errors of a text from left to right: each is a
\* non-empty range that starts at or after the end of the one before it and
\* ends within the text.  PrevEnd(i) is where error i may start.
PrevEnd(i) ==
    LET s == <<"start", i - 1, 0>>
        l == <<"length", i - 1, 0>>
    IN  IF i > 1 /\ s \in DOMAIN answers /\ l \in DOMAIN answers
          THEN answers[s].val + answers[l].val
          ELSE 0

CORRECTIVE_ACTION_GET_SUGGESTIONS == 1
CORRECTIVE_ACTION_REPLACE == 2
CORRECTIVE_ACTION_DELETE == 3
\* the codes the service may hand back: none (0), the three above, an unknown one
ActionCodes == 0..4

\* values of the val field of a string answer
NullEntry == 0
GoodString == 1
BadString == 2

AlphabetSeq == <<97, 233, 128512>>
\* the j-th string a suggestion enumerator hands out: different for every j
SuggestionWord(j) ==
    [k \in 1..(((j - 1) \div 3) + 1) |-> AlphabetSeq[((j - 1) % 3) + 1]]
ReplacementWord == <<128512, 97>>
\* a lone high surrogate: UTF-16 that is no string
LoneSurrogate == <<55357>>

NativeString(kind, word) == IF kind = GoodString THEN ToUtf16(word) ELSE LoneSurrogate

\* ================================================================ lib.rs 62-102
Upd(c, ck) == chk' = [chk EXCEPT ![c] = ck]

\* a shared enumerator: every check advances the same IEnumSpellingError
Enum_Shared(c) == 1
\* line 63: each check call owns the enumerator ComprehensiveCheck handed it
Enum(c) == c

\* `?` turned into an early Some(results)
ReturnOnFailure_Partial(ck) == [ck EXCEPT !.pc = "done", !.ret = "Some"]
\* `.ok()?`: a failed native call or conversion returns None from check
ReturnOnFailure(ck) == [ck EXCEPT !.pc = "done", !.ret = "None"]

\* the call or conversion at hand has failed: note it, and do what `?` does
Failing(ck) == [ReturnOnFailure(ck) EXCEPT !.failed = TRUE]

\* CoTaskMemFree forgotten
Released_Leak(buf) == buf
\* lines 82, 90: CoTaskMemFree(ptr)
Released(buf) == [buf EXCEPT !.frees = @ + 1]

Correction(kind, val) == [kind |-> kind, val |-> val]

\* lines 95-99: results.push(SpellingError { start, length, correction }),
\* and back to the head of the while loop
Pushed(ck, correction) ==
    [ck EXCEPT !.results = Append(@, [start |-> ck.start, length |-> ck.length,
                                      correction |-> correction]),
               !.pc = "next"]

\* line 63: self.0.ComprehensiveCheck(&HSTRING::from(text)).ok()?
ComprehensiveCheck(c) ==
    /\ chk[c].pc = "idle"
    /\ \E a \in {Ans(TRUE, 0), Fail} :
          /\ Answered(<<"check", 0, 0>>, a)
          /\ IF a.ok
               THEN /\ Upd(c, [chk[c] EXCEPT !.pc = "next"])
                    /\ errIdx' = [errIdx EXCEPT ![Enum(c)] = 0]
               ELSE /\ Upd(c, Failing(chk[c]))
                    /\ UNCHANGED errIdx
    /\ UNCHANGED <<text, nullFrees>>
    /\ UNCHANGED newVars

\* lines 66-67 and 101: errors.Next(&mut err) == S_OK, else Some(results)
ErrorsNext(c) ==
    /\ chk[c].pc = "next"
    /\ LET i == errIdx[Enum(c)] + 1
           more == i <= MaxErrors /\ PrevEnd(i) < Len(text)
       IN  \E a \in {Fail} \cup (IF more THEN {Ans(TRUE, 0)} ELSE {}) :
              /\ Answered(<<"next", i, 0>>, a)
              /\ IF a.ok
                   THEN /\ errIdx' = [errIdx EXCEPT ![Enum(c)] = i]
                        /\ Upd(c, [chk[c] EXCEPT !.pc = "start", !.err = i])
                   ELSE /\ Upd(c, [chk[c] EXCEPT !.pc = "done", !.ret = "Some"])
                        /\ UNCHANGED errIdx
    /\ UNCHANGED <<text, nullFrees>>
    /\ UNCHANGED newVars

\* line 68: err.StartIndex().ok()? as usize
StartIndex(c) ==
    /\ chk[c].pc = "start"
    /\ \E a \in {Fail} \cup {Ans(TRUE, n) : n \in PrevEnd(chk[c].err)..(Len(text) - 1)} :
          /\ Answered(<<"start", chk[c].err, 0>>, a)
          /\ Upd(c, IF a.ok THEN [chk[c] EXCEPT !.pc = "length", !.start = a.val]
                            ELSE Failing(chk[c]))
    /\ UNCHANGED <<text, errIdx, nullFrees>>
    /\ UNCHANGED newVars

\* line 69: err.Length().ok()? as usize
Length(c) ==
    /\ chk[c].pc = "length"
    /\ \E a \in {Fail} \cup {Ans(TRUE, n) : n \in 1..(Len(text) - chk[c].start)} :
          /\ Answered(<<"length", chk[c].err, 0>>, a)
          /\ Upd(c, IF a.ok THEN [chk[c] EXCEPT !.pc = "action", !.length = a.val]
                            ELSE Failing(chk[c]))
    /\ UNCHANGED <<text, errIdx, nullFrees>>
    /\ UNCHANGED newVars

\* lines 70-73, 87, 93: err.CorrectiveAction().ok()? and the match on it
CorrectiveAction(c) ==
    /\ chk[c].pc = "action"
    /\ \E a \in {Fail} \cup {Ans(TRUE, k) : k \in ActionCodes} :
          /\ Answered(<<"action", chk[c].err, 0>>, a)
          /\ Upd(c, IF ~a.ok THEN Failing(chk[c])
                    ELSE IF a.val = CORRECTIVE_ACTION_DELETE
                      THEN Pushed(chk[c], Correction("Delete", <<>>))
                    ELSE IF a.val = CORRECTIVE_ACTION_GET_SUGGESTIONS
                      THEN [chk[c] EXCEPT !.pc = "suggest"]
                    ELSE IF a.val = CORRECTIVE_ACTION_REPLACE
                      THEN [chk[c] EXCEPT !.pc = "replacement"]
                    ELSE Pushed(chk[c], Correction("None", <<>>)))
    /\ UNCHANGED <<text, errIdx, nullFrees>>
    /\ UNCHANGED newVars

\* lines 74-77: slice the text, hand the slice to Suggest, start with a null
\* suggestion[0]
Suggest(c) ==
    /\ chk[c].pc = "suggest"
    /\ LET bytes == Utf8(text)
           from == chk[c].start
           to == chk[c].start + chk[c].length
       IN  IF ~SliceOk(bytes, from, to)
             THEN /\ Upd(c, [chk[c] EXCEPT !.pc = "done", !.ret = "panic"])
                  /\ UNCHANGED answers
             ELSE LET substring == DecodeUtf8(ByteSlice(bytes, from, to))
                      sent == [start |-> from, length |-> chk[c].length,
                               units |-> ToUtf16(substring)]
                  IN  \E a \in {Ans(TRUE, 0), Fail} :
                         /\ Answered(<<"suggest", chk[c].err, 0>>, a)
                         /\ Upd(c, IF a.ok
                                     THEN [chk[c] EXCEPT !.pc = "sugNext",
                                                         !.inner = <<>>,
                                                         !.sugIdx = 0,
                                                         !.ptr = 0,
                                                         !.submitted = Append(@, sent)]
                                     ELSE [Failing(chk[c]) EXCEPT
                                                         !.submitted = Append(@, sent)])
    /\ UNCHANGED <<text, errIdx, nullFrees>>
    /\ UNCHANGED newVars

\* lines 78-80 and 85: suggestions.Next(&mut suggestion, None) == S_OK
\* && !suggestion[0].is_null(); when the loop ends, Correction::Suggestions
SuggestionsNext(c) ==
    /\ chk[c].pc = "sugNext"
    /\ LET j == chk[c].sugIdx + 1
           strings == IF j <= MaxSuggestions
                        THEN {Ans(TRUE, GoodString), Ans(TRUE, BadString)} ELSE {}
       IN  \E a \in {Fail, Ans(TRUE, NullEntry)} \cup strings :
              /\ Answered(<<"sugnext", chk[c].err, j>>, a)
              /\ Upd(c, IF a.ok /\ a.val # NullEntry
                          THEN [chk[c] EXCEPT
                                  !.bufs = Append(@, [units |-> NativeString(a.val, SuggestionWord(j)),
                                                      copied |-> FALSE, frees |-> 0]),
                                  !.ptr = Len(chk[c].bufs) + 1,
                                  !.sugIdx = j,
                                  !.pc = "sugToString"]
                          ELSE Pushed([chk[c] EXCEPT !.ptr = IF a.ok THEN 0 ELSE @],
                                      Correction("Suggestions", chk[c].inner)))
    /\ UNCHANGED <<text, errIdx, nullFrees>>
    /\ UNCHANGED newVars

\* lines 81, 89: ptr.to_string().ok()?: copy the buffer out, or return None
Converted(ck) ==
    LET buf == ck.bufs[ck.ptr]
    IN  IF ValidUtf16(buf.units)
          THEN [ck EXCEPT !.inner = Append(@, FromUtf16(buf.units)),
                          !.bufs[ck.ptr].copied = TRUE]
          ELSE Failing(ck)

\* line 81: results.push(suggestion[0].to_string().ok()?)
SuggestionToString(c) ==
    /\ chk[c].pc = "sugToString"
    /\ LET ck == Converted(chk[c])
       IN  Upd(c, IF ck.pc = "done" THEN ck ELSE [ck EXCEPT !.pc = "sugFree"])
    /\ UNCHANGED <<text, answers, errIdx, nullFrees>>
    /\ UNCHANGED newVars

\* lines 82, 90: CoTaskMemFree(Some(ptr.as_ptr()))
Freed(ck) ==
    IF ck.ptr = 0 THEN ck
    ELSE [ck EXCEPT !.bufs[ck.ptr] = Released(ck.bufs[ck.ptr])]

\* line 82, and back to the head of the inner while loop
SuggestionFree(c) ==
    /\ chk[c].pc = "sugFree"
    /\ Upd(c, [Freed(chk[c]) EXCEPT !.pc = "sugNext"])
    /\ nullFrees' = nullFrees + (IF chk[c].ptr = 0 THEN 1 ELSE 0)
    /\ UNCHANGED <<text, answers, errIdx>>
    /\ UNCHANGED newVars

\* line 88: err.Replacement().ok()?
Replacement(c) ==
    /\ chk[c].pc = "replacement"
    /\ \E a \in {Fail, Ans(TRUE, GoodString), Ans(TRUE, BadString)} :
          /\ Answered(<<"repl", chk[c].err, 0>>, a)
          /\ Upd(c, IF a.ok
                      THEN [chk[c] EXCEPT
                              !.bufs = Append(@, [units |-> NativeString(a.val, ReplacementWord),
                                                  copied |-> FALSE, frees |-> 0]),
                              !.ptr = Len(chk[c].bufs) + 1,
                              !.inner = <<>>,
                              !.pc = "replToString"]
                      ELSE Failing(chk[c]))
    /\ UNCHANGED <<text, errIdx, nullFrees>>
    /\ UNCHANGED newVars

\* line 89: let replacement_s = replacement.to_string().ok()?
ReplacementToString(c) ==
    /\ chk[c].pc = "replToString"
    /\ LET ck == Converted(chk[c])
       IN  Upd(c, IF ck.pc = "done" THEN ck ELSE [ck EXCEPT !.pc = "replFree"])
    /\ UNCHANGED <<text, answers, errIdx, nullFrees>>
    /\ UNCHANGED newVars

\* lines 90-91: CoTaskMemFree, then Correction::Replacement(replacement_s)
ReplacementFree(c) ==
    /\ chk[c].pc = "replFree"
    /\ Upd(c, Pushed(Freed(chk[c]), Correction("Replacement", chk[c].inner)))
    /\ nullFrees' = nullFrees + (IF chk[c].ptr = 0 THEN 1 ELSE 0)
    /\ UNCHANGED <<text, answers, errIdx>>
    /\ UNCHANGED newVars

\* The state the determinism test is in after its constructions (lines 111,
\* 116): one thread has called Spellchecker::new twice, the first call
\* initialized COM, both returned a Spellchecker.
Trace_Ok == [factory |-> "ok", supported |-> "true", create |-> "ok"]

InitConstructed ==
    /\ COM_INIT = TRUE
    /\ lockHolder = 0
    /\ poisoned = FALSE
    /\ coInitCalls = 1
    /\ coInitState = "ok"
    /\ tpc = [t \in Threads |-> "idle"]
    /\ op = [t \in Threads |-> IF t = 1 THEN "new" ELSE "try_init_com"]
    /\ locale = [t \in Threads |-> "en-US"]
    /\ sawInit = [t \in Threads |-> IF t = 1 THEN "set" ELSE "unread"]
    /\ trace = [t \in Threads |-> IF t = 1 THEN Trace_Ok ELSE NoTrace]
    /\ result = [t \in Threads |-> IF t = 1 THEN "Some" ELSE "pending"]
    /\ calls = [t \in Threads |-> IF t = 1 THEN 2 ELSE 0]
    /\ afterFail = [t \in Threads |-> FALSE]

\* each constructed Spellchecker runs check once, on the same text
InitCheck ==
    /\ InitConstructed
    /\ text \in Texts
    /\ answers = <<>>
    /\ chk = [c \in Checkers |-> NewCheck]
    /\ errIdx = [c \in Checkers |-> 0]
    /\ nullFrees = 0

NextCheck ==
    \E c \in Checkers :
        \/ ComprehensiveCheck(c)
        \/ ErrorsNext(c)
        \/ StartIndex(c)
        \/ Length(c)
        \/ CorrectiveAction(c)
        \/ Suggest(c)
        \/ SuggestionsNext(c)
        \/ SuggestionToString(c)
        \/ SuggestionFree(c)
        \/ Replacement(c)
        \/ ReplacementToString(c)
        \/ ReplacementFree(c)

SpecCheck == InitCheck /\ [][NextCheck]_vars


\* ================================================================ claims: Spec
PastGuard(t) ==
    \/ tpc[t] \in {"factory", "supported", "create"}
    \/ tpc[t] = "idle" /\ result[t] # "pending"

\* C1: in every step of every interleaving CoInitializeEx has been called at
\* most once in the process, COM_INIT never goes from true back to false, and a
\* call that found the flag set neither reaches the platform call nor panics:
\* only the one call that found it unset can.
C1_InitOnce ==
    [][ /\ coInitCalls' <= 1
        /\ (COM_INIT => COM_INIT')
        /\ \A t \in Threads :
              tpc'[t] \in {"coinit", "panicked"} => sawInit'[t] = "unset" ]_vars

\* a later call found the flag set and came back from the guard, one
\* CoInitializeEx call having been made by another call
C1_Witness ==
    /\ coInitCalls = 1
    /\ \E t \in Threads : sawInit[t] = "set" /\ PastGuard(t)
    /\ \E t \in Threads : calls[t] = MaxCalls

\* C2: no thread is past try_init_com (at CoCreateInstance or later) before the
\* one CoInitializeEx call has completed.
C2_OthersWait ==
    \A t \in Threads : PastGuard(t) => coInitState # "none"

\* C3: when CoInitializeEx fails the caller panics, and no call of
\* Spellchecker::new started after that failure returns a Spellchecker.
C3_FailureIsFatal ==
    /\ coInitState = "failed" => \E t \in Threads : tpc[t] = "panicked"
    /\ \A t \in Threads : ~(afterFail[t] /\ op[t] = "new" /\ result[t] = "Some")

Refused(tr) ==
    \/ tr.factory = "err"
    \/ tr.supported \in {"err", "false"}
    \/ tr.create = "err"

\* C4: new returns Some only when the factory was obtained, IsSupported
\* answered true and CreateSpellChecker succeeded; when any of the three
\* refuses, new returns None and does not panic; CreateSpellChecker is asked
\* only after IsSupported answered true.
C4_NewResult ==
    \A t \in Threads :
        op[t] = "new" =>
            /\ result[t] = "Some" =>
                  /\ trace[t].factory = "ok"
                  /\ trace[t].supported = "true"
                  /\ trace[t].create = "ok"
            /\ Refused(trace[t]) => result[t] = "None" /\ tpc[t] = "idle"
            /\ (tpc[t] = "create" \/ trace[t].create # "unasked") =>
                  trace[t].supported = "true"

\* one call returned a Spellchecker, another was refused for an unsupported locale
C4_Witness ==
    /\ \E t \in Threads : op[t] = "new" /\ result[t] = "Some"
    /\ \E t \in Threads :
          op[t] = "new" /\ trace[t].supported = "false" /\ result[t] = "None"

\* ================================================================ claims: SpecCheck
Returned(c) == chk[c].pc = "done" /\ chk[c].ret \in {"None", "Some"}

\* what the service said, read off its answers
Said(key) == IF key \in DOMAIN answers THEN answers[key] ELSE Fail

RECURSIVE Enumerated(_)
\* the number of errors the primary enumerator yields from error i on
Enumerated(i) ==
    IF i <= MaxErrors /\ Said(<<"next", i, 0>>).ok THEN 1 + Enumerated(i + 1) ELSE 0

\* the suggestion enumerator of error i handed out a string that does not convert
BadSuggestionSaid(i) ==
    \E j \in 1..MaxSuggestions :
        /\ \A k \in 1..(j - 1) : Said(<<"sugnext", i, k>>) = Ans(TRUE, GoodString)
        /\ Said(<<"sugnext", i, j>>) = Ans(TRUE, BadString)

\* resolving error i met a failed native call or conversion
FailureSaid(i) ==
    \/ ~Said(<<"start", i, 0>>).ok
    \/ ~Said(<<"length", i, 0>>).ok
    \/ ~Said(<<"action", i, 0>>).ok
    \/ /\ Said(<<"action", i, 0>>).val = CORRECTIVE_ACTION_GET_SUGGESTIONS
       /\ (~Said(<<"suggest", i, 0>>).ok \/ BadSuggestionSaid(i))
    \/ /\ Said(<<"action", i, 0>>).val = CORRECTIVE_ACTION_REPLACE
       /\ Said(<<"repl", i, 0>>) # Ans(TRUE, GoodString)

\* C5: once a native call or a string conversion of a check has failed, the
\* check has returned None, whatever it had resolved before; and a check that
\* returns Some was told of no failure on any error the enumerator yielded and
\* returns all of them.
C5_AllOrNothing ==
    \A c \in Checkers :
        /\ chk[c].failed => chk[c].pc = "done" /\ chk[c].ret = "None"
        /\ chk[c].ret = "Some" =>
              /\ Said(<<"check", 0, 0>>).ok
              /\ Len(chk[c].results) = Enumerated(1)
              /\ \A i \in 1..Enumerated(1) : ~FailureSaid(i)

\* a check failed after it had resolved an error
C5_Witness ==
    \E c \in Checkers :
        chk[c].failed /\ chk[c].ret = "None" /\ Len(chk[c].results) >= 1

RECURSIVE ExpectedSuggestions(_, _)
ExpectedSuggestions(i, j) ==
    LET a == Said(<<"sugnext", i, j>>)
    IN  IF j <= MaxSuggestions /\ a.ok /\ a.val = GoodString
          THEN <<SuggestionWord(j)>> \o ExpectedSuggestions(i, j + 1)
          ELSE <<>>

ExpectedCorrection(i) ==
    LET code == Said(<<"action", i, 0>>).val
    IN  IF code = CORRECTIVE_ACTION_DELETE THEN Correction("Delete", <<>>)
        ELSE IF code = CORRECTIVE_ACTION_GET_SUGGESTIONS
          THEN Correction("Suggestions", ExpectedSuggestions(i, 1))
        ELSE IF code = CORRECTIVE_ACTION_REPLACE
          THEN Correction("Replacement", <<ReplacementWord>>)
        ELSE Correction("None", <<>>)

ExpectedErrors ==
    [i \in 1..Enumerated(1) |->
        [start |-> Said(<<"start", i, 0>>).val,
         length |-> Said(<<"length", i, 0>>).val,
         correction |-> ExpectedCorrection(i)]]

\* C6: a check in which no native call failed ends by returning Some of exactly
\* the errors the primary enumerator yielded, in order, each with the start,
\* the length and the correction the service reported.
C6_AllErrors ==
    \A c \in Checkers :
        (chk[c].pc = "done" /\ ~chk[c].failed) =>
            chk[c].ret = "Some" /\ chk[c].results = ExpectedErrors

Unreleased(c) == {k \in 1..Len(chk[c].bufs) : chk[c].bufs[k].frees = 0}

\* C7: no buffer is released twice or before it was copied out, at most one
\* buffer is unreleased at any time (it is released before the next is asked
\* for), a null entry is never released, and when check returns Some every
\* buffer handed out has been released exactly once.
C7_ReleasedOnce ==
    /\ nullFrees = 0
    /\ \A c \in Checkers :
          /\ \A k \in 1..Len(chk[c].bufs) :
                /\ chk[c].bufs[k].frees <= 1
                /\ chk[c].bufs[k].frees = 1 => chk[c].bufs[k].copied
          /\ Cardinality(Unreleased(c)) <= 1
          /\ chk[c].ret = "Some" => Unreleased(c) = {}

\* a check returned Some after a suggestion buffer and a later buffer were
\* handed out and released
C7_Witness ==
    \E c \in Checkers :
        /\ chk[c].ret = "Some"
        /\ Len(chk[c].bufs) >= 2
        /\ \A k \in 1..Len(chk[c].bufs) : chk[c].bufs[k].frees = 1
        /\ \E k \in 1..Len(chk[c].results) :
              chk[c].results[k].correction.kind = "Suggestions"

\* C8: two checkers that check the same text against the same answers of the
\* service end the same way, with equal results, however their calls interleave.
C8_Deterministic ==
    \A c, d \in Checkers :
        (chk[c].pc = "done" /\ chk[d].pc = "done") =>
            /\ chk[c].ret = chk[d].ret
            /\ chk[c].results = chk[d].results

\* both checks returned the same two errors
C8_Witness ==
    /\ \A c \in Checkers : chk[c].ret = "Some" /\ Len(chk[c].results) >= 2
    /\ chk[1].results = chk[2].results

\* C9: check never panics while it cuts the substring out, and every string it
\* hands to Suggest is the characters of text at [start, start + length).
C9_ExactSubstring ==
    \A c \in Checkers :
        /\ chk[c].ret # "panic"
        /\ \A k \in 1..Len(chk[c].submitted) :
              LET sent == chk[c].submitted[k]
              IN  sent.units =
                    ToUtf16(SubSeq(text, sent.start + 1, sent.start + sent.length))

\* C10: when check has returned, None included, every buffer the service
\* handed out during the call has been released.
C10_NoLeakOnReturn ==
    \A c \in Checkers : Returned(c) => Unreleased(c) = {}

====
